---- MODULE Spec2Model ----
(***************************************************************************)
(* Model of src/app.py: the QRCodeManager (lock-guarded cache of the       *)
(* active QR session over the qr_sessions table) and the Flask handlers    *)
(* generate_qr, stop_qr, logout, get_qr_token and scan_qr that call it.    *)
(* Every request runs on its own thread (Procs); a step of a thread is one *)
(* stretch of code between two points where shared state (the lock, the    *)
(* cache qr_manager.active_session, the database) is read or written.      *)
(***************************************************************************)
EXTENDS Integers, FiniteSets, Sequences, TLC

\* ------------------------------------------------------------------ bounds
NumProcs == 2            \* request threads
MaxSessions == 2         \* sessions ever started (uuid4 values drawn)
MaxDuration == 2         \* largest duration_minutes a teacher submits
MaxTicks == 2            \* clock readings after the first one
TickSeconds == 30        \* seconds between two clock readings
StartTime == 86340       \* first clock reading (unix seconds)
TokenAge == 2            \* submitted tokens are at most this many windows old
MaxRequests == 4         \* requests served

\* ------------------------------------------------------- program constants
TOKEN_WINDOW_SECONDS == 30
SecondsPerMinute == 60
SecondsPerDay == 86400

Procs == 1..NumProcs
MaxTime == StartTime + MaxTicks * TickSeconds
Durations == 1..MaxDuration
SessionIds == 1..MaxSessions
UnknownSession == 0      \* a session id the manager never issued
Missing == -1            \* a field absent from the request body

\* users and classes tables (rows other code or an operator has inserted)
Teachers == {"teacher001", "teacher002"}
Students == {"2024001"}
NoUser == "anonymous"
Callers == Teachers \cup Students \cup {NoUser}
Role(u) == IF u \in Teachers THEN "teacher" ELSE IF u \in Students THEN "student" ELSE "none"
Classes == { [id |-> 1, class_code |-> "CS101", teacher_id |-> "teacher001"],
             [id |-> 2, class_code |-> "CS102", teacher_id |-> "teacher002"] }
ClassIds == { c.id : c \in Classes }
ClassCodes == { c.class_code : c \in Classes } \cup {""}

\* ----------------------------------------------------------- pure helpers
\* int(time.time()) // TOKEN_WINDOW_SECONDS
Window(t) == t \div TOKEN_WINDOW_SECONDS

\* hashlib.sha256(f"{session_id}:{window}".encode()).hexdigest()[:16], taken
\* as injective on the bounded inputs: the token names the pair it hashes
sha256_16(session_id, window) == <<session_id, window>>

\* datetime.utcnow().date(), as the day number
DateOf(t) == t \div SecondsPerDay

Dates == { DateOf(t) : t \in StartTime..MaxTime }
Keys == Students \X ClassIds \X Dates

EmptyDict == << >>       \* self.active_session = {}

VARIABLES
    now,             \* the wall clock (unix seconds)
    lock,            \* qr_manager.lock: 0 when free, else the holder
    active_session,  \* qr_manager.active_session
    qr_sessions,     \* table qr_sessions: session_id -> row
    attendance,      \* table attendance: rows per (student, class, date)
    pc,              \* where each request thread is
    req,             \* the locals of each request thread
    response,        \* history: the response the last step sent, if it sent one
    requests,        \* history: requests received so far
    successes,       \* history: Success responses per (student, class, date)
    stopped          \* history: the sessions that were cached when a stop_session returned

vars == <<now, lock, active_session, qr_sessions, attendance, pc, req, response, requests, successes, stopped>>

NoReq == [op |-> "none"]
NoResponse == [status |-> 0, kind |-> "none"]

Init ==
    /\ now = StartTime
    /\ lock = 0
    /\ active_session = EmptyDict
    /\ qr_sessions = << >>
    /\ attendance = [k \in Keys |-> 0]
    /\ pc = [p \in Procs |-> "idle"]
    /\ req = [p \in Procs |-> NoReq]
    /\ response = NoResponse
    /\ requests = 0
    /\ successes = [k \in Keys |-> 0]
    /\ stopped = {}

\* ------------------------------------------------------------ store helpers
ActiveIds(rows) == { s \in DOMAIN rows : rows[s].is_active }

\* UPDATE qr_sessions SET is_active = 0 WHERE session_id = ?
Deactivate(rows, ids) ==
    [s \in DOMAIN rows |-> IF s \in ids THEN [rows[s] EXCEPT !.is_active = FALSE] ELSE rows[s]]

\* the SELECT with ORDER BY created_at ASC
MostRecentActive_Oldest(rows) ==
    { s \in ActiveIds(rows) : \A s2 \in ActiveIds(rows) : rows[s].created_at <= rows[s2].created_at }

\* SELECT ... WHERE is_active = 1 ORDER BY created_at DESC LIMIT 1: the rows
\* the query may return (rows created in the same second tie)
MostRecentActive(rows) ==
    { s \in ActiveIds(rows) : \A s2 \in ActiveIds(rows) : rows[s2].created_at <= rows[s].created_at }

SessionDict(rows, s) ==
    [session_id |-> s, class_id |-> rows[s].class_id,
     teacher_id |-> rows[s].teacher_id, expires_at |-> rows[s].expires_at]

\* ------------------------------------------------------------ store faults
\* The statement of a transaction at which sqlite3 raises sqlite3.Error (the
\* disk is full, the file is locked for longer than the connection's
\* timeout); "none": no statement raises.
StartFaults == {"none", "update", "insert", "commit"}
StopFaults == {"none", "update", "commit"}
LoadFaults == {"none", "select", "update", "commit"}
InsertFaults == {"none", "insert", "commit"}

\* an exception no handler catches: Flask answers 500 (history: `op` is the
\* manager operation that raised, `user` the caller's user_id)
InternalError(op, user) == [status |-> 500, kind |-> "InternalError", op |-> op, user |-> user]

\* a connection that commits each statement as it runs
Rollback_Kept(committed, pending) == pending

\* `finally: conn.close()` on a connection whose transaction was not
\* committed: the table is as the last commit left it
Rollback(committed, pending) == committed

\* _load_active_session_from_db: the <<cache, table, raised>> triples it may
\* leave when sqlite3 raises at `fault`
LoadActiveSessionFromDb(cache, rows, t, fault) ==
    IF fault = "select" THEN { <<cache, rows, TRUE>> }
    ELSE IF ActiveIds(rows) = {} THEN { <<cache, rows, FALSE>> }
    ELSE { IF t < rows[s].expires_at
           THEN <<SessionDict(rows, s), rows, FALSE>>
           ELSE IF fault = "none"
           THEN <<cache, Deactivate(rows, {s}), FALSE>>
           ELSE <<cache, Rollback(rows, IF fault = "commit" THEN Deactivate(rows, {s}) ELSE rows), TRUE>>
         : s \in MostRecentActive(rows) }

\* _ensure_session_is_active: the cache is empty or expired
Stale(cache, t) == cache = EmptyDict \/ t >= cache.expires_at

\* _ensure_session_is_active
EnsureSessionIsActive(cache, rows, t, fault) ==
    IF Stale(cache, t)
    THEN LoadActiveSessionFromDb(cache, rows, t, fault)
    ELSE { <<cache, rows, FALSE>> }

\* the faults of a call of _load_active_session_from_db: it runs its UPDATE
\* and commit only for an expired row
LoadFaultsAt(rows, t) ==
    { fault \in LoadFaults :
        fault \in {"update", "commit"}
            => \E s \in MostRecentActive(rows) : t >= rows[s].expires_at }

\* the faults of a call of _ensure_session_is_active: it runs no statement
\* when the cache is fresh
EnsureFaults(cache, rows, t) == IF Stale(cache, t) THEN LoadFaultsAt(rows, t) ELSE {"none"}

\* a `with self.lock:` that is left without releasing the lock
Release_Held(p) == p

\* the lock after thread p leaves `with self.lock:`, by a return or by an
\* exception
Release(p) == 0

\* a lock that never blocks
LockFree_Always(l) == TRUE

\* `with self.lock:` can be entered. A thread takes the lock in the step
\* that runs the first stretch of the code under it: a thread that only
\* holds the lock has changed nothing another thread can see.
LockFree(l) == l = 0

\* the handler returns: the thread is free for the next request
Respond(p, r) ==
    /\ response' = r
    /\ pc' = [pc EXCEPT ![p] = "idle"]
    /\ req' = [req EXCEPT ![p] = NoReq]

\* the handler goes on to `label` with the locals `locals`
Goto(p, label, locals) ==
    /\ pc' = [pc EXCEPT ![p] = label]
    /\ req' = [req EXCEPT ![p] = locals]
    /\ response' = NoResponse

\* a request arrives and an idle thread takes it: the first one, the
\* threads of the pool being interchangeable
Receive(p) ==
    /\ pc[p] = "idle"
    /\ \A q \in Procs : q < p => pc[q] # "idle"
    /\ requests < MaxRequests
    /\ requests' = requests + 1

\* ----------------------------------------------------------------- restart
\* The process is restarted between two requests over the database as it
\* is: qr_manager = QRCodeManager() starts with an empty cache and a new lock
\* and loads the active session, logging an exception of the load.
Restart ==
    /\ \A p \in Procs : pc[p] = "idle"
    /\ \E fault \in LoadFaultsAt(qr_sessions, now) :
       \E r \in LoadActiveSessionFromDb(EmptyDict, qr_sessions, now, fault) :
         /\ active_session' = r[1]
         /\ qr_sessions' = r[2]
         /\ response' = [status |-> 0, kind |-> "Restarted", raised |-> r[3]]
    /\ lock' = 0
    /\ pc' = [p \in Procs |-> "idle"]
    /\ req' = [p \in Procs |-> NoReq]
    /\ UNCHANGED <<now, attendance, requests, successes, stopped>>

\* ------------------------------------------------------------------- clock
\* The next clock reading. The code under the lock runs between two
\* readings: it reads the clock and the database within milliseconds.
Tick ==
    /\ now + TickSeconds <= MaxTime
    /\ lock = 0
    /\ now' = now + TickSeconds
    /\ response' = NoResponse
    /\ UNCHANGED <<lock, active_session, qr_sessions, attendance, pc, req, requests, successes, stopped>>

\* ------------------------------------------- generate_qr / start_session
\* start_session without its UPDATE
DeactivateTeacher_Skipped(rows, teacher_id) == rows

\* start_session with an UPDATE that has no teacher_id condition
DeactivateTeacher_All(rows, teacher_id) == Deactivate(rows, ActiveIds(rows))

\* UPDATE qr_sessions SET is_active = 0 WHERE teacher_id = ? AND is_active = 1
DeactivateTeacher(rows, teacher_id) ==
    Deactivate(rows, { s \in ActiveIds(rows) : rows[s].teacher_id = teacher_id })

\* the INSERT of start_session; created_at is the table's CURRENT_TIMESTAMP
InsertSession(rows, session, t) ==
    Append(rows, [class_id |-> session.class_id, teacher_id |-> session.teacher_id,
                  created_at |-> t, expires_at |-> session.expires_at, is_active |-> TRUE])

\* the class lookup by class_code alone
OwnedClass_AnyTeacher(class_code, user) ==
    { c \in Classes : c.class_code = class_code }

\* SELECT id, class_name FROM classes WHERE class_code = ? AND teacher_id = ?
OwnedClass(class_code, user) ==
    { c \in Classes : c.class_code = class_code /\ c.teacher_id = user }

\* start_session: session_id = uuid4(), expires_at = utcnow() + minutes
NewSession(rows, class_id, teacher_id, duration_minutes, t) ==
    [session_id |-> Len(rows) + 1, class_id |-> class_id, teacher_id |-> teacher_id,
     expires_at |-> t + duration_minutes * SecondsPerMinute]

\* the transaction of start_session: the table it leaves when sqlite3 raises
\* at `fault`
StartTransaction(rows, session, t, fault) ==
    LET updated == DeactivateTeacher(rows, session.teacher_id)
        inserted == InsertSession(updated, session, t)
    IN  CASE fault = "none" -> inserted
          [] fault = "update" -> Rollback(rows, rows)
          [] fault = "insert" -> Rollback(rows, updated)
          [] fault = "commit" -> Rollback(rows, inserted)

\* generate_qr, and start_session through its UPDATE, INSERT and commit; when
\* sqlite3 raises, start_session leaves its `with` and `try` blocks and
\* generate_qr does not catch the exception
GenerateQr(p, caller, class_code, duration) ==
    /\ Receive(p)
    /\ IF Role(caller) # "teacher"
       THEN /\ Respond(p, [status |-> 403, kind |-> "NotAuthorized"])
            /\ UNCHANGED <<lock, qr_sessions>>
       ELSE IF class_code = ""
       THEN /\ Respond(p, [status |-> 400, kind |-> "ValidationError"])
            /\ UNCHANGED <<lock, qr_sessions>>
       ELSE IF OwnedClass(class_code, caller) = {}
       THEN /\ Respond(p, [status |-> 404, kind |-> "NotAuthorized"])
            /\ UNCHANGED <<lock, qr_sessions>>
       ELSE /\ LockFree(lock)
            /\ Len(qr_sessions) < MaxSessions
            /\ \E c \in OwnedClass(class_code, caller), fault \in StartFaults :
                 LET session == NewSession(qr_sessions, c.id, caller, duration, now) IN
                 /\ qr_sessions' = StartTransaction(qr_sessions, session, now, fault)
                 /\ IF fault = "none"
                    THEN /\ lock' = p
                         /\ Goto(p, "start_cache", [op |-> "start", session |-> session])
                    ELSE /\ lock' = Release(p)
                         /\ Respond(p, InternalError("start_session", caller))
    /\ UNCHANGED <<now, active_session, attendance, successes, stopped>>

\* start_session: self.active_session = {...}; return; the lock is released
\* and generate_qr answers from the returned dict
StartCache(p) ==
    /\ pc[p] = "start_cache"
    /\ active_session' = req[p].session
    /\ lock' = Release(p)
    /\ Respond(p, [status |-> 200, kind |-> "Started", session_id |-> req[p].session.session_id])
    /\ UNCHANGED <<now, qr_sessions, attendance, requests, successes, stopped>>

\* ------------------------------------------ stop_qr / logout / stop_session
\* stop_session without its UPDATE
StopTargets_None(cache, rows) == {}

\* stop_session deactivating every active row when nothing is cached
StopTargets_AllWhenEmpty(cache, rows) ==
    IF cache # EmptyDict THEN {cache.session_id} ELSE ActiveIds(rows)

\* the session ids stop_session deactivates
StopTargets(cache, rows) ==
    IF cache # EmptyDict THEN {cache.session_id} ELSE {}

\* the transaction of stop_session: the table it leaves when sqlite3 raises
\* at `fault`
StopTransaction(cache, rows, fault) ==
    LET updated == Deactivate(rows, StopTargets(cache, rows))
    IN  CASE fault = "none" -> updated
          [] fault = "update" -> Rollback(rows, rows)
          [] fault = "commit" -> Rollback(rows, updated)

\* stop_session through `if self.active_session: UPDATE ...; commit`; with
\* nothing cached it opens no connection. When sqlite3 raises, stop_session
\* leaves its `with` block before it clears the cache; logout catches the
\* exception, stop_qr does not.
StopDb(p, caller, via) ==
    /\ LockFree(lock)
    /\ \E fault \in StopFaults :
         /\ fault # "none" => active_session # EmptyDict
         /\ qr_sessions' = StopTransaction(active_session, qr_sessions, fault)
         /\ IF fault = "none"
            THEN /\ lock' = p
                 /\ Goto(p, "stop_clear", [op |-> "stop", via |-> via])
            ELSE /\ lock' = Release(p)
                 /\ Respond(p, IF via = "logout"
                                THEN [status |-> 200, kind |-> "LoggedOut"]
                                ELSE InternalError("stop_session", caller))

\* stop_qr, and stop_session through its UPDATE and commit
StopQr(p, caller) ==
    /\ Receive(p)
    /\ IF Role(caller) # "teacher"
       THEN /\ Respond(p, [status |-> 403, kind |-> "NotAuthorized"])
            /\ UNCHANGED <<lock, qr_sessions>>
       ELSE StopDb(p, caller, "stop_qr")
    /\ UNCHANGED <<now, active_session, attendance, successes, stopped>>

\* logout: a teacher's logout stops the session first
Logout(p, caller) ==
    /\ Receive(p)
    /\ IF Role(caller) # "teacher"
       THEN /\ Respond(p, [status |-> 200, kind |-> "LoggedOut"])
            /\ UNCHANGED <<lock, qr_sessions>>
       ELSE StopDb(p, caller, "logout")
    /\ UNCHANGED <<now, active_session, attendance, successes, stopped>>

\* stop_session: self.active_session = {}; the lock is released; return True
StopClear(p) ==
    /\ pc[p] = "stop_clear"
    /\ active_session' = EmptyDict
    /\ lock' = Release(p)
    /\ Respond(p, [status |-> 200,
                   kind |-> IF req[p].via = "logout" THEN "LoggedOut" ELSE "Stopped"])
    /\ stopped' = stopped \cup (IF active_session # EmptyDict THEN {active_session.session_id} ELSE {})
    /\ UNCHANGED <<now, qr_sessions, attendance, requests, successes>>

\* --------------------------------------- get_qr_token / get_current_token
\* a token derived from the window alone
CurrentToken_WindowOnly(cache, t) ==
    [token |-> sha256_16(UnknownSession, Window(t)), session_id |-> cache.session_id]

\* what get_current_token returns for the cache it finds after the reload
CurrentToken(cache, t) ==
    [token |-> sha256_16(cache.session_id, Window(t)), session_id |-> cache.session_id]

\* get_qr_token through get_current_token (the lock is taken and released)
\* and `if token_data:`; an exception of the reload is not caught. The
\* thread keeps the local token_window of the call (history: it is not
\* returned).
GetQrToken(p) ==
    /\ Receive(p)
    /\ LockFree(lock)
    /\ \E fault \in EnsureFaults(active_session, qr_sessions, now) :
       \E r \in EnsureSessionIsActive(active_session, qr_sessions, now, fault) :
         /\ active_session' = r[1]
         /\ qr_sessions' = r[2]
         /\ IF r[3]
            THEN Respond(p, InternalError("get_current_token", NoUser))
            ELSE IF r[1] = EmptyDict
            THEN Respond(p, [status |-> 404, kind |-> "NoActiveSession"])
            ELSE Goto(p, "token_read1", [op |-> "token", token_data |-> CurrentToken(r[1], now),
                                         token_window |-> Window(now)])
    /\ UNCHANGED <<now, lock, attendance, successes, stopped>>

\* get_qr_token: if qr_manager.active_session.get("expires_at"):
TokenRead1(p) ==
    /\ pc[p] = "token_read1"
    /\ IF active_session # EmptyDict
       THEN Goto(p, "token_read2", req[p])
       ELSE Respond(p, [status |-> 200, kind |-> "Token", token |-> req[p].token_data.token,
                        session_id |-> req[p].token_data.session_id, expires_at |-> Missing])
    /\ UNCHANGED <<now, lock, active_session, qr_sessions, attendance, requests, successes, stopped>>

\* get_qr_token: token_data["expires_at"] = qr_manager.active_session["expires_at"]
\* (a KeyError when the cache was emptied since the test above)
TokenRead2(p) ==
    /\ pc[p] = "token_read2"
    /\ IF active_session # EmptyDict
       THEN Respond(p, [status |-> 200, kind |-> "Token", token |-> req[p].token_data.token,
                        session_id |-> req[p].token_data.session_id,
                        expires_at |-> active_session.expires_at])
       ELSE Respond(p, [status |-> 500, kind |-> "KeyError"])
    /\ UNCHANGED <<now, lock, active_session, qr_sessions, attendance, requests, successes, stopped>>

\* ------------------------------------------------ scan_qr / validate_token
NoToken == << >>         \* no token in the request body

\* validate_token trying the current window alone
Offsets_CurrentOnly == {0}

\* for offset in (0, -1)
Offsets == {0, -1}

\* the tokens and session ids a request body may carry at time t
SubmittedTokens(t) ==
    { sha256_16(s, w) : s \in SessionIds, w \in (Window(t) - TokenAge)..Window(t) }
        \cup {sha256_16(UnknownSession, Window(t)), NoToken}
SubmittedSessionIds == {UnknownSession, Missing} \cup SessionIds

\* validate_token after the reload: the result for the cache it finds
ValidateToken(cache, token, session_id, t) ==
    /\ cache # EmptyDict
    /\ cache.session_id = session_id
    /\ \E offset \in Offsets : token = sha256_16(session_id, Window(t) + offset)

\* an answer that tells a session that is not the cached one from a token
\* that does not match
InvalidToken_Revealing(cache, session_id) ==
    IF cache = EmptyDict \/ cache.session_id # session_id
    THEN [status |-> 404, kind |-> "UnknownSession"]
    ELSE [status |-> 400, kind |-> "InvalidToken"]

\* scan_qr: 400 "The QR code is invalid or has expired." for every False of
\* validate_token
InvalidToken(cache, session_id) == [status |-> 400, kind |-> "InvalidToken"]

\* scan_qr through validate_token (the lock is taken and released) and
\* `if not qr_manager.validate_token(token, session_id):`
ScanQr(p, caller, token, session_id) ==
    /\ Receive(p)
    /\ IF Role(caller) # "student"
       THEN /\ Respond(p, [status |-> 403, kind |-> "NotAuthorized"])
            /\ UNCHANGED <<active_session, qr_sessions>>
       ELSE IF token = NoToken \/ session_id = Missing
       THEN /\ Respond(p, [status |-> 400, kind |-> "ValidationError"])
            /\ UNCHANGED <<active_session, qr_sessions>>
       ELSE /\ LockFree(lock)
            /\ \E fault \in EnsureFaults(active_session, qr_sessions, now) :
               \E r \in EnsureSessionIsActive(active_session, qr_sessions, now, fault) :
                 /\ active_session' = r[1]
                 /\ qr_sessions' = r[2]
                 /\ IF r[3]
                    THEN Respond(p, InternalError("validate_token", caller))
                    ELSE IF ValidateToken(r[1], token, session_id, now)
                    THEN Goto(p, "scan_read", [op |-> "scan", student_id |-> caller,
                                                token |-> token, session_id |-> session_id])
                    ELSE Respond(p, InvalidToken(r[1], session_id))
    /\ UNCHANGED <<now, lock, attendance, successes, stopped>>

\* scan_qr: today = ...; class_id = qr_manager.active_session.get("class_id") ...
ScanRead(p) ==
    /\ pc[p] = "scan_read"
    /\ IF active_session # EmptyDict
       THEN Goto(p, "scan_select", [op |-> "scan", student_id |-> req[p].student_id,
                                    session_id |-> req[p].session_id,
                                    class_id |-> active_session.class_id, today |-> DateOf(now)])
       ELSE Respond(p, [status |-> 400, kind |-> "NoActiveSession"])
    /\ UNCHANGED <<now, lock, active_session, qr_sessions, attendance, requests, successes, stopped>>

AttendanceKey(r) == <<r.student_id, r.class_id, r.today>>

ScanResponse(r, status, kind) ==
    [status |-> status, kind |-> kind, class_id |-> r.class_id, session_id |-> r.session_id]

\* scan_qr: SELECT 1 FROM attendance WHERE ...; if exists: 409
ScanSelect(p) ==
    /\ pc[p] = "scan_select"
    /\ IF attendance[AttendanceKey(req[p])] > 0
       THEN Respond(p, ScanResponse(req[p], 409, "AlreadyMarked"))
       ELSE Goto(p, "scan_insert", req[p])
    /\ UNCHANGED <<now, lock, active_session, qr_sessions, attendance, requests, successes, stopped>>

\* the attendance table without its UNIQUE constraint
UniqueViolation_None(table, key) == FALSE

\* UNIQUE(student_id, class_id, attendance_date): the INSERT raises
\* sqlite3.IntegrityError when a row with the key is there
UniqueViolation(table, key) == table[key] > 0

\* except sqlite3.Error: 500 "A database error occurred."; `error` is the
\* exception caught (history: the response does not carry it)
StoreError(r, error) ==
    [status |-> 500, kind |-> "StoreError", class_id |-> r.class_id,
     session_id |-> r.session_id, error |-> error]

\* scan_qr: INSERT INTO attendance; commit; except sqlite3.Error: 500
ScanInsert(p) ==
    /\ pc[p] = "scan_insert"
    /\ \E fault \in InsertFaults :
         LET key == AttendanceKey(req[p])
             inserted == [attendance EXCEPT ![key] = @ + 1]
         IN  IF UniqueViolation(attendance, key)
             THEN /\ Respond(p, StoreError(req[p], "IntegrityError"))
                  /\ UNCHANGED <<attendance, successes>>
             ELSE IF fault # "none"
             THEN /\ attendance' = Rollback(attendance, IF fault = "commit" THEN inserted ELSE attendance)
                  /\ Respond(p, StoreError(req[p], "OperationalError"))
                  /\ UNCHANGED successes
             ELSE /\ attendance' = inserted
                  /\ successes' = [successes EXCEPT ![key] = @ + 1]
                  /\ Respond(p, ScanResponse(req[p], 200, "Success"))
    /\ UNCHANGED <<now, lock, active_session, qr_sessions, requests, stopped>>

\* ------------------------------------------------------------ specification
\* The request bodies drawn. Requests that differ only in fields the handler
\* does not get to read are drawn once: a generate-qr request refused for
\* the caller's role or the class code with duration 1, a scan request
\* refused for the caller's role or a missing field with no field at all, a
\* scan request whose token was derived for another session than the one it
\* names with the token of the unknown session.
GenerateQrRequests ==
    { r \in Callers \X ClassCodes \X Durations :
        \/ Role(r[1]) = "teacher" /\ OwnedClass(r[2], r[1]) # {}
        \/ r[3] = 1 /\ (Role(r[1]) = "teacher" \/ r[2] = "") }

ScanQrRequests(t) ==
    { r \in Callers \X SubmittedTokens(t) \X SubmittedSessionIds :
        \/ /\ Role(r[1]) = "student" /\ r[2] # NoToken /\ r[3] # Missing
           /\ \/ r[2] = sha256_16(UnknownSession, Window(t))
              \/ \E w \in (Window(t) - TokenAge)..Window(t) : r[2] = sha256_16(r[3], w)
        \/ r[2] = NoToken /\ r[3] = Missing }

Next ==
    \/ Tick
    \/ Restart
    \/ \E p \in Procs :
         \/ \E r \in GenerateQrRequests : GenerateQr(p, r[1], r[2], r[3])
         \/ StartCache(p)
         \/ \E caller \in Callers : StopQr(p, caller)
         \/ \E caller \in Callers : Logout(p, caller)
         \/ StopClear(p)
         \/ GetQrToken(p)
         \/ TokenRead1(p)
         \/ TokenRead2(p)
         \/ \E r \in ScanQrRequests(now) : ScanQr(p, r[1], r[2], r[3])
         \/ ScanRead(p)
         \/ ScanSelect(p)
         \/ ScanInsert(p)

Spec == Init /\ [][Next]_vars

\* A thread inside `with self.lock:` is scheduled again: it runs no loop and
\* waits for nothing but sqlite3, which answers or raises within the
\* connection's timeout.
Fairness == \A p \in Procs : WF_vars(StartCache(p)) /\ WF_vars(StopClear(p))

FairSpec == Spec /\ Fairness

\* ================================================================== claims
IssuedIds == DOMAIN qr_sessions
TeacherActive(teacher_id) == { s \in ActiveIds(qr_sessions) : qr_sessions[s].teacher_id = teacher_id }

\* C1: in every reachable state each teacher has at most one qr_sessions row
\* with is_active = 1; after a teacher's second start the first row is
\* inactive and the new one is the teacher's only active row.
C1_OneActivePerTeacher ==
    \A teacher_id \in Teachers : Cardinality(TeacherActive(teacher_id)) <= 1

\* a second start by the same teacher has committed: the first session is
\* still cached and unexpired, its row is inactive, the new row is active
C1_Witness ==
    \E p \in Procs :
        /\ pc[p] = "start_cache"
        /\ req[p].session.session_id = 2
        /\ active_session # EmptyDict
        /\ active_session.session_id = 1
        /\ now < active_session.expires_at
        /\ qr_sessions[1].teacher_id = qr_sessions[2].teacher_id
        /\ ~qr_sessions[1].is_active
        /\ TeacherActive(qr_sessions[2].teacher_id) = {2}

\* thread p takes a request in this step
Receives(p) ==
    /\ pc[p] = "idle"
    /\ \A q \in Procs : q < p => pc[q] # "idle"
    /\ requests' = requests + 1

\* no row other than s is active and unexpired at time t
NoOtherUnexpiredActive(s, t) ==
    \A s2 \in ActiveIds(qr_sessions) \ {s} : t >= qr_sessions[s2].expires_at

\* C2: for a session s with no other unexpired active session in the store,
\* get_current_token called before s.expires_at returns a token for s, and
\* called at or after s.expires_at returns None.
C2_TokenUntilExpiry ==
    [][\A p \in Procs : (Receives(p) /\ GetQrToken(p) /\ response'.kind # "InternalError") =>
         \A s \in IssuedIds : NoOtherUnexpiredActive(s, now) =>
            /\ (qr_sessions[s].is_active /\ now < qr_sessions[s].expires_at)
                  => (pc'[p] = "token_read1" /\ req'[p].token_data.session_id = s)
            /\ now >= qr_sessions[s].expires_at
                  => (pc'[p] = "idle" /\ response'.kind = "NoActiveSession")]_vars

\* the scan requests that reach validate_token
ValidateCalls(t) ==
    Students \X (SubmittedTokens(t) \ {NoToken}) \X (SubmittedSessionIds \ {Missing})

\* C3: validate_token(token, session_id) returns True only if the cache it
\* answers from holds the session session_id and that session's expires_at
\* is later than now; otherwise it returns False.
C3_ValidateOnlyUnexpired ==
    [][\A p \in Procs : (Receives(p) /\ pc'[p] = "scan_read") =>
         \A r \in ValidateCalls(now) : ScanQr(p, r[1], r[2], r[3]) =>
            /\ active_session' # EmptyDict
            /\ active_session'.session_id = r[3]
            /\ now < active_session'.expires_at]_vars

\* C4: while session s is cached, active and unexpired, the token that
\* get_current_token returns for s in window k is accepted by
\* validate_token in windows k and k+1 and rejected in window k+2 and later.
C4_TokenWindows ==
    [][\A p \in Procs :
         ( /\ Receives(p)
           /\ active_session' # EmptyDict
           /\ now < active_session'.expires_at
           /\ qr_sessions'[active_session'.session_id].is_active )
         => \A student_id \in Students : \A k \in (Window(now) - TokenAge)..Window(now) :
              LET session_id == active_session'.session_id
                  token == CurrentToken(active_session', k * TOKEN_WINDOW_SECONDS).token
              IN  ScanQr(p, student_id, token, session_id)
                     => (pc'[p] = "scan_read" <=> Window(now) \in {k, k + 1})]_vars

\* a token of the previous window has just been accepted for the cached,
\* active, unexpired session
C4_Witness ==
    \E p \in Procs :
        /\ pc[p] = "scan_read"
        /\ req[p].token = sha256_16(req[p].session_id, Window(now) - 1)
        /\ active_session # EmptyDict
        /\ active_session.session_id = req[p].session_id
        /\ now < active_session.expires_at
        /\ qr_sessions[req[p].session_id].is_active
        /\ qr_sessions[req[p].session_id].created_at = now - TickSeconds

\* C5: two concurrent scans of one (student, class, date) answer Success
\* and AlreadyMarked; no scan answers StoreError because of the UNIQUE
\* constraint.
C5_NoStoreErrorOnDuplicate ==
    ~(response.kind = "StoreError" /\ response.error = "IntegrityError")

\* C6: the attendance table holds at most one row per (student_id, class_id,
\* attendance_date), and as many rows for a key as Success responses.
C6_OneMarkPerKey ==
    \A k \in Keys : attendance[k] <= 1 /\ successes[k] = attendance[k]

\* a second INSERT for a key that has its row was refused
C6_Witness ==
    /\ response.kind = "StoreError"
    /\ response.error = "IntegrityError"
    /\ \E k \in Keys : k[2] = response.class_id /\ attendance[k] = 1 /\ successes[k] = 1

\* C7: a scan that answers Success wrote its mark against the class of the
\* session named by the submitted session_id.
C7_MarkForValidatedSession ==
    response.kind = "Success" =>
        response.class_id = qr_sessions[response.session_id].class_id

\* C8: a successful get_qr_token response carries the expires_at of the
\* session its session_id names.
C8_TokenResponseOneSession ==
    response.kind = "Token" =>
        /\ response.expires_at # Missing
        /\ response.expires_at = qr_sessions[response.session_id].expires_at

\* the pcs at which a thread is inside `with self.lock:`
InCritical(p) == pc[p] \in {"start_cache", "stop_clear"}

\* thread p enters `with self.lock:` of start_session, stop_session,
\* get_current_token or validate_token in this step
EntersLock(p) ==
    /\ Receives(p)
    /\ \/ InCritical(p)'
       \/ pc'[p] \in {"token_read1", "scan_read"}
       \/ response'.kind \in {"NoActiveSession", "InvalidToken"}

\* C9: at most one of start_session, stop_session, get_current_token and
\* validate_token is inside its critical section at a time: the lock is held
\* by exactly the thread that is inside, and no operation enters while a
\* start is between its INSERT and its cache update or a stop between its
\* UPDATE and its cache clear.
C9_MutualExclusion ==
    [][/\ \A p, q \in Procs : (InCritical(p)' /\ InCritical(q)') => p = q
       /\ \A p \in Procs : InCritical(p)' <=> lock' = p
       /\ \A p, q \in Procs : EntersLock(p) => ~InCritical(q)]_vars

\* a stop has deactivated the cached session's row and not yet cleared the
\* cache, while another thread is in the middle of a scan
C9_Witness ==
    \E p, q \in Procs :
        /\ pc[p] = "stop_clear"
        /\ active_session # EmptyDict
        /\ ~qr_sessions[active_session.session_id].is_active
        /\ pc[q] = "scan_read"
        /\ requests < MaxRequests

\* thread p runs stop_session's first stretch in this step
StopsNow(p) == pc[p] = "idle" /\ pc'[p] = "stop_clear"

\* C10: stop_session with nothing cached returns True and changes neither
\* the cache nor any qr_sessions row; every stop leaves the cache empty, so
\* a second stop finds nothing cached and changes nothing.
C10_StopIdempotent ==
    [][\A p \in Procs :
         /\ (StopsNow(p) /\ active_session = EmptyDict)
               => (qr_sessions' = qr_sessions /\ active_session' = EmptyDict)
         /\ StopClear(p) =>
              /\ active_session' = EmptyDict
              /\ response'.status = 200
              /\ qr_sessions' = qr_sessions]_vars

\* a stop runs with nothing cached while another teacher's row is active
C10_Witness ==
    \E p \in Procs :
        /\ pc[p] = "stop_clear"
        /\ active_session = EmptyDict
        /\ ActiveIds(qr_sessions) # {}

\* C11: when sqlite3 raises at the UPDATE, the INSERT or the commit of
\* start_session, qr_sessions has no new row, the rows of the caller that
\* were active are still active and the cache is unchanged; when the INSERT
\* or the commit of scan_qr raises, attendance has no new row.
C11_FailedStoreAtomic ==
    [][\A p \in Procs :
         /\ ( /\ Receives(p)
              /\ response'.kind = "InternalError"
              /\ response'.op = "start_session" )
            => /\ DOMAIN qr_sessions' = DOMAIN qr_sessions
               /\ ActiveIds(qr_sessions') = ActiveIds(qr_sessions)
               /\ \A s \in TeacherActive(response'.user) : qr_sessions'[s].is_active
               /\ active_session' = active_session
         /\ (pc[p] = "scan_insert" /\ response'.kind = "StoreError")
            => attendance' = attendance]_vars

\* a start of a teacher whose session is active and cached has raised
C11_Witness ==
    /\ response.kind = "InternalError"
    /\ response.op = "start_session"
    /\ active_session # EmptyDict
    /\ active_session.teacher_id = response.user
    /\ TeacherActive(response.user) = {active_session.session_id}

\* a start request of a caller who is no teacher or does not own a class
\* with the class code
RejectedStart(caller, class_code) ==
    \/ Role(caller) # "teacher"
    \/ ~\E c \in Classes : c.class_code = class_code /\ c.teacher_id = caller

\* a scan request of a caller who is no student, or without token or
\* session_id
RejectedScan(caller, token, session_id) ==
    \/ Role(caller) # "student"
    \/ token = NoToken
    \/ session_id = Missing

\* C12: generate_qr for a caller who is not a teacher or does not own the
\* class, and scan_qr for a caller who is not a student or without token or
\* session_id, answer 4xx and leave the cache, qr_sessions, attendance and
\* the lock as they were.
C12_RejectedUnchanged ==
    [][\A p \in Procs : Receives(p) =>
         /\ \A caller \in Callers : \A class_code \in ClassCodes :
              (RejectedStart(caller, class_code) /\ GenerateQr(p, caller, class_code, 1))
              => /\ response'.kind \in {"NotAuthorized", "ValidationError"}
                 /\ response'.status \in {400, 403, 404}
                 /\ UNCHANGED <<active_session, qr_sessions, attendance, lock>>
         /\ \A caller \in Callers :
              (RejectedScan(caller, NoToken, Missing) /\ ScanQr(p, caller, NoToken, Missing))
              => /\ response'.kind \in {"NotAuthorized", "ValidationError"}
                 /\ response'.status \in {400, 403}
                 /\ UNCHANGED <<active_session, qr_sessions, attendance, lock>>]_vars

\* a teacher's start for a class of another teacher was refused while a
\* session is cached and active
C12_Witness ==
    /\ response.kind = "NotAuthorized"
    /\ response.status = 404
    /\ active_session # EmptyDict
    /\ qr_sessions[active_session.session_id].is_active

\* C13: a scan of a student with token and session_id that validate_token
\* refuses is answered by one and the same response, 400 InvalidToken,
\* whether nothing is cached, another session is cached, or the session is
\* cached and the token is wrong or stale.
C13_InvalidTokenUniform ==
    [][\A p \in Procs :
         ( /\ Receives(p)
           /\ pc'[p] = "idle"
           /\ response'.kind # "InternalError"
           /\ response' # [status |-> 400, kind |-> "InvalidToken"] )
         => \A r \in ValidateCalls(now) : ~ScanQr(p, r[1], r[2], r[3])]_vars

\* a scan was refused while a session is cached, active and unexpired
C13_Witness ==
    /\ response = [status |-> 400, kind |-> "InvalidToken"]
    /\ active_session # EmptyDict
    /\ now < active_session.expires_at
    /\ qr_sessions[active_session.session_id].is_active

\* C14: whenever no manager operation is running (the lock is free) and the
\* cache holds a session, qr_sessions has that session's row with
\* is_active = 1.
C14_CacheMirrored ==
    (lock = 0 /\ active_session # EmptyDict)
    => /\ active_session.session_id \in DOMAIN qr_sessions
       /\ qr_sessions[active_session.session_id].is_active

\* C15: when stop_session returns and session S was cached, S's row is
\* inactive and the cache is empty; no row ever goes from is_active = 0 to
\* is_active = 1; and from then on S is never cached again and
\* validate_token returns True for no token submitted with S's id.
C15_StoppedStaysStopped ==
    [][/\ \A p \in Procs : (StopClear(p) /\ active_session # EmptyDict)
            => /\ ~qr_sessions'[active_session.session_id].is_active
               /\ active_session' = EmptyDict
       /\ \A s \in DOMAIN qr_sessions : ~qr_sessions[s].is_active => ~qr_sessions'[s].is_active
       /\ \A s \in stopped' : ~qr_sessions'[s].is_active
       /\ active_session' # EmptyDict => active_session'.session_id \notin stopped'
       /\ \A p \in Procs : (Receives(p) /\ pc'[p] = "scan_read")
            => req'[p].session_id \notin stopped]_vars

\* a scan was refused while a session stopped before its expiry is in the
\* table and another session is cached and unexpired
C15_Witness ==
    /\ response.kind = "InvalidToken"
    /\ \E s \in stopped : now < qr_sessions[s].expires_at
    /\ active_session # EmptyDict
    /\ now < active_session.expires_at

\* C16: stop_qr or logout of a teacher while the cached session belongs to
\* another teacher changes neither qr_sessions nor the cache.
C16_StopByOtherTeacher ==
    [][\A p \in Procs : \A caller \in Teachers :
         ( /\ Receives(p)
           /\ active_session # EmptyDict
           /\ active_session.teacher_id # caller
           /\ (StopQr(p, caller) \/ Logout(p, caller)) )
         => /\ qr_sessions' = qr_sessions
            /\ pc'[p] = "idle"]_vars

\* C17: a start_session that commits inserts one active row for the new
\* session, sets is_active = 0 on the caller's rows that were active and
\* changes no other row (rows of other teachers keep is_active); it then
\* caches the new session whatever was cached, also a session of another
\* teacher.
C17_StartFrame ==
    [][\A p \in Procs :
         /\ (pc[p] = "idle" /\ pc'[p] = "start_cache")
            => LET new == req'[p].session IN
               /\ new.session_id \notin DOMAIN qr_sessions
               /\ DOMAIN qr_sessions' = DOMAIN qr_sessions \cup {new.session_id}
               /\ qr_sessions'[new.session_id].is_active
               /\ qr_sessions'[new.session_id].teacher_id = new.teacher_id
               /\ qr_sessions'[new.session_id].class_id = new.class_id
               /\ qr_sessions'[new.session_id].expires_at = new.expires_at
               /\ \A s \in DOMAIN qr_sessions :
                    IF qr_sessions[s].teacher_id = new.teacher_id
                    THEN qr_sessions'[s] = [qr_sessions[s] EXCEPT !.is_active = FALSE]
                    ELSE qr_sessions'[s] = qr_sessions[s]
               /\ active_session' = active_session
         /\ (pc[p] = "start_cache" /\ pc'[p] = "idle" /\ response'.kind # "Restarted")
            => /\ active_session' = req[p].session
               /\ qr_sessions' = qr_sessions
               /\ response'.kind = "Started"
               /\ response'.session_id = req[p].session.session_id]_vars

\* a start has committed its row while the session of another teacher is
\* cached, active and unexpired
C17_Witness ==
    \E p \in Procs :
        /\ pc[p] = "start_cache"
        /\ active_session # EmptyDict
        /\ active_session.teacher_id # req[p].session.teacher_id
        /\ qr_sessions[active_session.session_id].is_active
        /\ now < active_session.expires_at

\* the active rows created last (rows created in the same second tie)
MostRecentRows ==
    { s \in ActiveIds(qr_sessions) :
        \A s2 \in ActiveIds(qr_sessions) : qr_sessions[s2].created_at <= qr_sessions[s].created_at }

\* the most recently created active row is unexpired
MostRecentUnexpired ==
    /\ MostRecentRows # {}
    /\ \A s \in MostRecentRows : now < qr_sessions[s].expires_at

\* this step leaves the most recently created active row cached, as the
\* table has it, and changes no row
AdoptsMostRecent ==
    /\ active_session' # EmptyDict
    /\ active_session'.session_id \in MostRecentRows
    /\ active_session' = SessionDict(qr_sessions, active_session'.session_id)
    /\ qr_sessions' = qr_sessions

\* C18: get_current_token and validate_token called with the cache empty or
\* expired while the most recently created active row is unexpired cache
\* that row, whichever teacher owns it, and answer from it; so does the
\* load of a restarted process.
C18_ReloadAdopts ==
    [][/\ \A p \in Procs :
            ( /\ Receives(p)
              /\ active_session = EmptyDict \/ now >= active_session.expires_at
              /\ MostRecentUnexpired
              /\ response'.kind # "InternalError" )
            => /\ GetQrToken(p)
                  => /\ AdoptsMostRecent
                     /\ pc'[p] = "token_read1"
                     /\ req'[p].token_data = CurrentToken(active_session', now)
               /\ \A r \in ValidateCalls(now) : ScanQr(p, r[1], r[2], r[3])
                  => /\ AdoptsMostRecent
                     /\ pc'[p] = "scan_read" <=> ValidateToken(active_session', r[2], r[3], now)
       /\ (response'.kind = "Restarted" /\ ~response'.raised /\ MostRecentUnexpired)
            => AdoptsMostRecent]_vars

\* a token of a session was accepted after the session another teacher
\* started later, which had replaced it in the cache, was stopped
C18_Witness ==
    \E p \in Procs : \E s \in stopped :
        /\ pc[p] = "scan_read"
        /\ active_session # EmptyDict
        /\ active_session.session_id = req[p].session_id
        /\ active_session.session_id < s
        /\ active_session.teacher_id # qr_sessions[s].teacher_id

\* thread p calls get_current_token or validate_token in this step and the
\* call returns
CallReturns(p) ==
    /\ Receives(p)
    /\ \/ pc'[p] \in {"token_read1", "scan_read"}
       \/ response'.kind \in {"NoActiveSession", "InvalidToken"}

\* C19: when a call of get_current_token or validate_token returns, no row
\* of qr_sessions with expires_at <= now has is_active = 1.
C19_ExpiredDeactivated ==
    [][\A p \in Procs : CallReturns(p) =>
         \A s \in DOMAIN qr_sessions' :
            qr_sessions'[s].expires_at <= now => ~qr_sessions'[s].is_active]_vars

\* C20: under fair scheduling a thread that holds the lock releases it, so
\* the lock is free again and again and no request waits for it forever; an
\* operation that raises has released the lock when its handler answers,
\* and a thread that holds the lock runs no step that takes it.
C20_LockReleased ==
    /\ \A p \in Procs : (lock = p) ~> (lock = 0)
    /\ [][/\ response'.kind = "InternalError" => lock' = 0
          /\ \A p \in Procs : (lock = p /\ pc'[p] # pc[p]) => lock' = 0]_vars

\* a thread holds the lock in the middle of a stop while a request can
\* arrive at the other thread
C20_Witness ==
    \E p, q \in Procs :
        /\ lock = p
        /\ pc[p] = "stop_clear"
        /\ pc[q] = "idle"
        /\ requests < MaxRequests

\* the threads that hold the token_data of a get_current_token call
HoldsToken(p) == pc[p] \in {"token_read1", "token_read2"}

====
